---- MODULE Spec2Model ----
(***************************************************************************)
(* Model of the running-wrapped data pipeline:                             *)
(*   scripts/download_activities.py  (the Extractor)                       *)
(*   scripts/process_activities.py   (the Merger)                          *)
(* The two scripts share nothing but the files under the data directory:   *)
(* activities.json, streams/<id>.json and processed_activities.json.       *)
(***************************************************************************)
EXTENDS Integers, Sequences, FiniteSets, TLC

VARIABLES
    activitiesFile,  \* data/activities.json: [exists, data]
    streamFiles,     \* data/streams/<key>.json, one file state per key
    outputFile,      \* data/processed_activities.json: [exists, data]
    pc,              \* position of the Extractor process
    listOutcome,     \* Extractor: what this run's list request did
    activities,      \* Extractor: the filtered list held by main()
    i,               \* Extractor: 1-based index of the next loop iteration
    last,            \* Extractor: what the last loop iteration of this run did
    savedList,       \* Extractor: this run has written activities.json
    mpc              \* exit state of the last Merger run

vars == <<activitiesFile, streamFiles, outputFile, pc, listOutcome, activities,
          i, last, savedList, mpc>>

(***************************************************************************)
(* Bounds of the model.                                                    *)
(***************************************************************************)
MaxListed == 2        \* activities in one list response of the API
MaxMerged == 2        \* activities in an activities.json given to the Merger
MaxStreams == 3       \* records in a list-of-typed-records payload

(***************************************************************************)
(* JSON values.  Every kind of value is a record of one shape, so that     *)
(* values of different kinds can be compared.                              *)
(***************************************************************************)
\* an optional number: None, or a number n
None == [k |-> "none", n |-> 0]
Num(n) == [k |-> "num", n |-> n]

\* an activity identifier: None (key absent or null), a string or a number
IdNone == [k |-> "none", s |-> "", n |-> 0]
IdStr(s) == [k |-> "str", s |-> s, n |-> 0]
IdNum(n) == [k |-> "num", s |-> "", n |-> n]

\* the value held by a channel: null, a non-sequence scalar, or a sequence
JNull == [k |-> "null", v |-> <<>>]
JScalar == [k |-> "scalar", v |-> <<>>]
JSeq(s) == [k |-> "seq", v |-> s]
EmptySeq == JSeq(<<>>)

\* one element of a list payload: a dict with optional 'type' and 'data'
\* keys, or something that is not a dict
NotADict == [isdict |-> FALSE, type |-> "", hasdata |-> FALSE, data |-> JNull]
StreamRec(t, d) == [isdict |-> TRUE, type |-> t, hasdata |-> TRUE, data |-> d]
StreamRecNoData(t) == [isdict |-> TRUE, type |-> t, hasdata |-> FALSE, data |-> JNull]

\* a stream payload: null, a number, a list of elements, or a dict that may
\* hold the keys 'heartrate', 'velocity_smooth' and other keys
Payload(k, n, elems, hashr, hr, hasvs, vs, other) ==
    [k |-> k, n |-> n, elems |-> elems, hashr |-> hashr, hr |-> hr,
     hasvs |-> hasvs, vs |-> vs, other |-> other]
PNull == Payload("null", 0, <<>>, FALSE, JNull, FALSE, JNull, FALSE)
PNum(n) == Payload("num", n, <<>>, FALSE, JNull, FALSE, JNull, FALSE)
PList(elems) == Payload("list", 0, elems, FALSE, JNull, FALSE, JNull, FALSE)
PDict(hashr, hr, hasvs, vs, other) ==
    Payload("dict", 0, <<>>, hashr, IF hashr THEN hr ELSE JNull,
            hasvs, IF hasvs THEN vs ELSE JNull, other)
EmptyDict == PDict(FALSE, JNull, FALSE, JNull, FALSE)
EmptyList == PList(<<>>)

\* a file on disk: missing, not parseable as JSON, or holding a JSON value
Missing == [st |-> "missing", p |-> PNull]
Garbage == [st |-> "garbage", p |-> PNull]
JsonFile(p) == [st |-> "json", p |-> p]

NoFile == [exists |-> FALSE, data |-> <<>>]
ListFile(data) == [exists |-> TRUE, data |-> data]

Activity(type, id, moving, elapsed) ==
    [type |-> type, id |-> id, start_date_local |-> "2025-03-01T07:00:00",
     moving_time |-> moving, elapsed_time |-> elapsed, distance |-> Num(5000)]

(***************************************************************************)
(* Python's truth value and str() of the values above.                     *)
(***************************************************************************)
truthy_id(id) ==
    CASE id.k = "none" -> FALSE
      [] id.k = "str" -> id.s # ""
      [] id.k = "num" -> id.n # 0

truthy_num(x) == x.k = "num" /\ x.n # 0

truthy_payload(p) ==
    CASE p.k = "null" -> FALSE
      [] p.k = "num" -> p.n # 0
      [] p.k = "list" -> Len(p.elems) > 0
      [] p.k = "dict" -> p.hashr \/ p.hasvs \/ p.other

\* x or y
py_or(x, y) == IF truthy_num(x) THEN x ELSE y

DigitStr == <<"1", "2", "3", "4", "5", "6", "7", "8", "9">>

\* str(activity_id) and the {activity_id} of an f-string
str(id) ==
    CASE id.k = "none" -> "None"
      [] id.k = "str" -> id.s
      [] id.k = "num" -> IF id.n = 0 THEN "0" ELSE DigitStr[id.n]

(***************************************************************************)
(* The Extractor: scripts/download_activities.py                           *)
(***************************************************************************)
\* what urlopen and json.loads can do with one request
Outcomes == {"ok", "http_401", "http_500", "url_error", "bad_json"}

\* variant of make_api_request whose URLError handler does not exit, so the
\* function returns nothing instead of ending the process
make_api_request_no_exit(outcome) ==
    CASE outcome = "ok" -> "value"
      [] outcome \in {"http_401", "http_500"} -> "exit"
      [] outcome = "url_error" -> "value"
      [] outcome = "bad_json" -> "raise"

\* make_api_request: the body is returned ("value"), the process exits with
\* status 1 ("exit": HTTPError and URLError are caught and sys.exit(1) is
\* called), or the exception of json.loads leaves the function ("raise")
make_api_request(outcome) ==
    CASE outcome = "ok" -> "value"
      [] outcome \in {"http_401", "http_500"} -> "exit"
      [] outcome = "url_error" -> "exit"
      [] outcome = "bad_json" -> "raise"

\* the filter of get_activities: a.get('type') == 'Run'
get_activities(response) == SelectSeq(response, LAMBDA a : a.type = "Run")

\* get_activity_streams: 'except Exception' catches what make_api_request
\* raises, but not the SystemExit of sys.exit(1), which ends the process
get_activity_streams(outcome, payload) ==
    LET r == make_api_request(outcome) IN
    CASE r = "value" -> [exit |-> FALSE, warned |-> FALSE, streams |-> payload]
      [] r = "raise" -> [exit |-> FALSE, warned |-> TRUE, streams |-> EmptyDict]
      [] r = "exit" -> [exit |-> TRUE, warned |-> FALSE, streams |-> EmptyDict]

\* variant of the test: 'if streams is not None:'
has_streams_not_none(streams) == streams.k # "null"

\* 'if streams:' of main's loop
has_streams(streams) == truthy_payload(streams)

\* variant of the save that empties the streams directory first
save_json_fresh_dir(files, activity_id, streams) ==
    [key \in DOMAIN files |->
       IF key = str(activity_id) THEN JsonFile(streams) ELSE Missing]

\* save_json(streams, streams_dir / f"{activity_id}.json")
save_json(files, activity_id, streams) ==
    [files EXCEPT ![str(activity_id)] = JsonFile(streams)]

\* the record of one loop iteration: the identifier the streams were
\* requested for, what the request did, and whether save_json was called
Fetched(id, outcome, g, wrote) ==
    [id |-> id, outcome |-> outcome, exited |-> g.exit, warned |-> g.warned,
     streams |-> g.streams, wrote |-> wrote]
NoFetch ==
    [id |-> IdNone, outcome |-> "none", exited |-> FALSE, warned |-> FALSE,
     streams |-> EmptyDict, wrote |-> FALSE]

(***************************************************************************)
(* The Merger: scripts/process_activities.py                               *)
(***************************************************************************)
\* load_stream_data: a missing file and a JSONDecodeError both give {}
load_stream_data(key, files) ==
    CASE files[key].st = "missing" -> EmptyDict
      [] files[key].st = "garbage" -> EmptyDict
      [] files[key].st = "json" -> files[key].p

\* stream.get('data', [])
get_data(stream) == IF stream.hasdata THEN stream.data ELSE EmptySeq

\* stream_data.get(key, [])
get_channel(has, value) == IF has THEN value ELSE EmptySeq

\* variant of the assignment that keeps a channel once it is filled
assign_channel_once(current, stream) ==
    IF current = EmptySeq THEN get_data(stream) ELSE current

\* the assignment made for a record of type 'heartrate' or 'velocity_smooth'
assign_channel(current, stream) == get_data(stream)

\* the loop 'for stream in stream_data' over a list payload
RECURSIVE scan_streams(_, _, _)
scan_streams(elems, heartrate, velocity_smooth) ==
    IF elems = <<>>
    THEN [heartrate |-> heartrate, velocity_smooth |-> velocity_smooth]
    ELSE LET stream == Head(elems) IN
         IF stream.isdict /\ stream.type = "heartrate"
         THEN scan_streams(Tail(elems), assign_channel(heartrate, stream),
                           velocity_smooth)
         ELSE IF stream.isdict /\ stream.type = "velocity_smooth"
         THEN scan_streams(Tail(elems), heartrate,
                           assign_channel(velocity_smooth, stream))
         ELSE scan_streams(Tail(elems), heartrate, velocity_smooth)

\* the two channels of one activity, from what load_stream_data returned
extract_channels(stream_data) ==
    IF truthy_payload(stream_data)
    THEN CASE stream_data.k = "list" ->
                scan_streams(stream_data.elems, EmptySeq, EmptySeq)
           [] stream_data.k = "dict" ->
                [heartrate |-> get_channel(stream_data.hashr, stream_data.hr),
                 velocity_smooth |-> get_channel(stream_data.hasvs, stream_data.vs)]
           [] OTHER ->
                [heartrate |-> EmptySeq, velocity_smooth |-> EmptySeq]
    ELSE [heartrate |-> EmptySeq, velocity_smooth |-> EmptySeq]

\* activity.get('moving_time') or activity.get('elapsed_time')
duration(activity) == py_or(activity.moving_time, activity.elapsed_time)

\* 'if not activity_id:'
missing_id(activity_id) == ~truthy_id(activity_id)

\* the record built for one activity that is not skipped
processed_activity(activity, files) ==
    LET ch == extract_channels(load_stream_data(str(activity.id), files)) IN
    [id |-> activity.id,
     datetime |-> activity.start_date_local,
     duration |-> duration(activity),
     distance |-> activity.distance,
     heartrate |-> ch.heartrate,
     velocity_smooth |-> ch.velocity_smooth]

\* the loop of process_activities
RECURSIVE process_loop(_, _, _)
process_loop(acts, files, processed) ==
    IF acts = <<>> THEN processed
    ELSE LET activity == Head(acts) IN
         IF activity.type # "Run"
         THEN process_loop(Tail(acts), files, processed)
         ELSE IF missing_id(activity.id)
         THEN process_loop(Tail(acts), files, processed)
         ELSE process_loop(Tail(acts), files,
                           Append(processed, processed_activity(activity, files)))

process_activities(acts, files) == process_loop(acts, files, <<>>)

(***************************************************************************)
(* Input domains.                                                          *)
(***************************************************************************)
SeqsUpTo(S, n) == UNION {[1..m -> S] : m \in 0..n}

Ids == {IdNone, IdStr(""), IdNum(0), IdNum(7), IdStr("i1")}
Keys == {str(id) : id \in Ids}

HR == JSeq(<<10, 20>>)
VS == JSeq(<<4, 5>>)

\* what the list endpoint can answer
ApiIds == {IdNone, IdStr("i1")}
ApiActivities == {Activity(t, id, Num(1500), Num(1800)) :
                    t \in {"Run", "Ride"}, id \in ApiIds}
ListResponses == SeqsUpTo(ApiActivities, MaxListed)

\* what the streams endpoint can answer
StreamResponses ==
    {PNull, EmptyDict, EmptyList,
     PList(<<StreamRec("heartrate", HR)>>),
     PDict(TRUE, JSeq(<<1, 2, 3>>), TRUE, VS, FALSE)}

(***************************************************************************)
(* The processes.                                                          *)
(***************************************************************************)
Init ==
    /\ activitiesFile = NoFile
    /\ streamFiles = [key \in Keys |-> Missing]
    /\ outputFile = NoFile
    /\ pc = "idle"
    /\ listOutcome = "none"
    /\ activities = <<>>
    /\ i = 0
    /\ last = NoFetch
    /\ savedList = FALSE
    /\ mpc = "idle"

\* main() of download_activities.py up to the loop: get_activities and the
\* save of activities.json
FetchActivities ==
    /\ pc # "loop"
    /\ \E outcome \in Outcomes :
       \E response \in (IF outcome = "ok" THEN ListResponses ELSE {<<>>}) :
         LET r == make_api_request(outcome) IN
         /\ last' = NoFetch
         /\ listOutcome' = outcome
         /\ IF r = "value"
            THEN /\ activities' = get_activities(response)
                 /\ activitiesFile' = ListFile(activities')
                 /\ savedList' = TRUE
                 /\ pc' = "loop"
                 /\ i' = 1
            ELSE /\ activities' = <<>>
                 /\ activitiesFile' = activitiesFile
                 /\ savedList' = FALSE
                 /\ pc' = IF r = "exit" THEN "exited" ELSE "crashed"
                 /\ i' = 0
    /\ UNCHANGED <<streamFiles, outputFile, mpc>>

\* one iteration of main's loop over the activities
FetchStreams ==
    /\ pc = "loop"
    /\ i <= Len(activities)
    /\ \E outcome \in Outcomes :
       \E payload \in (IF outcome = "ok" THEN StreamResponses ELSE {EmptyDict}) :
         LET activity_id == activities[i].id
             g == get_activity_streams(outcome, payload)
         IN IF g.exit
            THEN /\ pc' = "exited"
                 /\ last' = Fetched(activity_id, outcome, g, FALSE)
                 /\ UNCHANGED <<streamFiles, i>>
            ELSE /\ pc' = "loop"
                 /\ i' = i + 1
                 /\ IF has_streams(g.streams)
                    THEN /\ streamFiles' = save_json(streamFiles, activity_id, g.streams)
                         /\ last' = Fetched(activity_id, outcome, g, TRUE)
                    ELSE /\ streamFiles' = streamFiles
                         /\ last' = Fetched(activity_id, outcome, g, FALSE)
    /\ UNCHANGED <<activitiesFile, outputFile, listOutcome, activities, savedList, mpc>>

\* the end of main(): "Download complete!"
FinishDownload ==
    /\ pc = "loop"
    /\ i > Len(activities)
    /\ pc' = "complete"
    /\ UNCHANGED <<activitiesFile, streamFiles, outputFile, listOutcome, activities,
                   i, last, savedList, mpc>>

\* main() of process_activities.py, run while no download is in progress:
\* load_activities raises FileNotFoundError when activities.json is missing,
\* else the output file is replaced
ProcessActivities ==
    /\ pc # "loop"
    /\ IF activitiesFile.exists
       THEN /\ outputFile' = ListFile(process_activities(activitiesFile.data, streamFiles))
            /\ mpc' = "done"
       ELSE /\ outputFile' = outputFile
            /\ mpc' = "failed"
    /\ UNCHANGED <<activitiesFile, streamFiles, pc, listOutcome, activities, i, last,
                   savedList>>

Next ==
    \/ FetchActivities
    \/ FetchStreams
    \/ FinishDownload
    \/ ProcessActivities

Spec == Init /\ [][Next]_vars

(***************************************************************************)
(* The Merger alone, over the activities.json and stream files it can be   *)
(* given.                                                                  *)
(***************************************************************************)
MergeIds == {IdNone, IdStr(""), IdNum(0), IdStr("i1")}
MergeActivities ==
    {Activity(t, id, m, e) :
       t \in {"Run", "Ride"}, id \in MergeIds,
       m \in {None, Num(0), Num(1500)}, e \in {None, Num(1800)}}

MergeFiles ==
    {Missing, Garbage, JsonFile(EmptyDict), JsonFile(EmptyList),
     JsonFile(PDict(TRUE, JSeq(<<1, 2, 3>>), TRUE, VS, FALSE))}

Idle ==
    /\ outputFile = NoFile
    /\ pc = "idle"
    /\ listOutcome = "none"
    /\ activities = <<>>
    /\ i = 0
    /\ last = NoFetch
    /\ savedList = FALSE
    /\ mpc = "idle"

MergeInit ==
    /\ activitiesFile \in
         {NoFile} \cup {ListFile(l) : l \in SeqsUpTo(MergeActivities, MaxMerged)}
    /\ \E f0 \in MergeFiles, f1 \in MergeFiles :
         streamFiles = [key \in Keys |->
                          IF key = "0" THEN f0 ELSE IF key = "i1" THEN f1 ELSE Missing]
    /\ Idle

MergeSpec == MergeInit /\ [][ProcessActivities]_vars

(***************************************************************************)
(* The Merger on one activity, over the stream artifacts it can find.      *)
(***************************************************************************)
ChannelTypes == {"heartrate", "velocity_smooth", "cadence"}
ChannelRecs ==
    {NotADict}
      \cup {StreamRecNoData(t) : t \in ChannelTypes}
      \cup {StreamRec(t, d) : t \in ChannelTypes, d \in {JNull, JScalar, HR, VS}}
ChannelValues == {JNull, JScalar, EmptySeq, JSeq(<<1, 2, 3>>)}
ChannelPayloads ==
    {PNull, PNum(0), PNum(7)}
      \cup {PList(elems) : elems \in SeqsUpTo(ChannelRecs, MaxStreams)}
      \cup {PDict(hashr, hr, hasvs, vs, other) :
              hashr \in BOOLEAN, hr \in ChannelValues,
              hasvs \in BOOLEAN, vs \in ChannelValues, other \in BOOLEAN}
ChannelFiles == {Missing, Garbage} \cup {JsonFile(p) : p \in ChannelPayloads}

ChannelInit ==
    /\ activitiesFile =
         ListFile(<<Activity("Run", IdStr("i1"), Num(1500), Num(1800))>>)
    /\ \E f \in ChannelFiles :
         streamFiles = [key \in Keys |-> IF key = "i1" THEN f ELSE Missing]
    /\ Idle

ChannelSpec == ChannelInit /\ [][ProcessActivities]_vars

(***************************************************************************)
(* Vocabulary of the properties.                                           *)
(***************************************************************************)
\* an identifier that is present and non-empty
HasIdentifier(id) == id.k = "num" \/ (id.k = "str" /\ id.s # "")

\* a payload that holds something
NonEmptyPayload(p) ==
    \/ p.k = "list" /\ p.elems # <<>>
    \/ p.k = "dict" /\ (p.hashr \/ p.hasvs \/ p.other)
    \/ p.k = "num" /\ p.n # 0

\* a stream artifact that is missing, unparseable or present but empty
NoStreams(file) ==
    \/ file.st \in {"missing", "garbage"}
    \/ file.st = "json" /\ ~NonEmptyPayload(file.p)

IsSequence(value) == value.k = "seq"

\* the positions of the structured records carrying a channel name
Matching(elems, name) ==
    {j \in 1..Len(elems) : elems[j].isdict /\ elems[j].type = name}
First(S) == CHOOSE j \in S : \A m \in S : j <= m
Last(S) == CHOOSE j \in S : \A m \in S : m <= j
\* the data of a record, empty when the record has no data field
DataOf(rec) == IF rec.hasdata THEN rec.data ELSE EmptySeq
FirstData(elems, name) ==
    IF Matching(elems, name) = {} THEN EmptySeq
    ELSE DataOf(elems[First(Matching(elems, name))])
LastData(elems, name) ==
    IF Matching(elems, name) = {} THEN EmptySeq
    ELSE DataOf(elems[Last(Matching(elems, name))])

\* the channel an artifact's payload holds under a name
ArtifactChannel(p, name) ==
    CASE p.k = "list" -> LastData(p.elems, name)
      [] p.k = "dict" /\ name = "heartrate" -> IF p.hashr THEN p.hr ELSE EmptySeq
      [] p.k = "dict" /\ name = "velocity_smooth" -> IF p.hasvs THEN p.vs ELSE EmptySeq
      [] OTHER -> EmptySeq

Records == outputFile.data
Input == activitiesFile.data
RecordOf(id) == {k \in 1..Len(Records) : Records[k].id = id}
StreamFailures == {"http_401", "http_500", "url_error", "bad_json"}
ListFailed == listOutcome \in StreamFailures

(***************************************************************************)
(* C1.  A failure fetching the streams of one activity is not fatal: the   *)
(* iteration warns, has no streams and writes nothing, and the run goes on *)
(* with the next activity instead of exiting.                              *)
(***************************************************************************)
C1_StreamFailureNonFatal ==
    last.outcome \in StreamFailures =>
        /\ pc # "exited"
        /\ last.warned
        /\ ~last.wrote
        /\ ~NonEmptyPayload(last.streams)

(***************************************************************************)
(* C2.  Every record the Merger emits holds a sequence in both channel     *)
(* fields, whatever the state of the stream artifact.                      *)
(***************************************************************************)
C2_ChannelsAreSequences ==
    mpc = "done" =>
        \A k \in 1..Len(Records) :
            IsSequence(Records[k].heartrate) /\ IsSequence(Records[k].velocity_smooth)

(***************************************************************************)
(* C3.  For a collection of activities of the selected category, the       *)
(* output holds one record for each activity whose identifier is present   *)
(* and non-empty, in the order of the input, and nothing else.             *)
(***************************************************************************)
Identified == SelectSeq(Input, LAMBDA a : HasIdentifier(a.id))
AllRuns == \A k \in 1..Len(Input) : Input[k].type = "Run"

C3_OneRecordPerIdentified ==
    (mpc = "done" /\ AllRuns) =>
        /\ Len(Records) = Len(Identified)
        /\ \A k \in 1..Len(Identified) :
              /\ Records[k].id = Identified[k].id
              /\ Records[k].datetime = Identified[k].start_date_local
              /\ Records[k].distance = Identified[k].distance

(***************************************************************************)
(* C4.  An activity without an identifier is left out of both stages: the  *)
(* Extractor requests no streams and writes no artifact for it, and the    *)
(* Merger emits no record for it.                                          *)
(***************************************************************************)
C4_NoIdentifierExcluded ==
    /\ last.outcome # "none" => HasIdentifier(last.id)
    /\ streamFiles[str(IdNone)].st = "missing"
    /\ mpc = "done" => \A k \in 1..Len(Records) : HasIdentifier(Records[k].id)

(***************************************************************************)
(* C5.  When the request for the activity list fails, the run stops at     *)
(* once: it has not written activities.json, it requests no streams, and   *)
(* no step taken while the run is in that state changes activities.json or *)
(* a stream artifact.                                                      *)
(***************************************************************************)
C5_ListFailureStopsRun ==
    [][ListFailed' =>
          /\ pc' \in {"exited", "crashed"}
          /\ ~savedList'
          /\ last' = NoFetch
          /\ activitiesFile' = activitiesFile
          /\ streamFiles' = streamFiles]_vars

\* a second run fails on the list while the first run's files are on disk
C5_Witness ==
    /\ ListFailed
    /\ pc = "exited"
    /\ activitiesFile.exists
    /\ streamFiles["i1"].st = "json"

(***************************************************************************)
(* C6.  The duration of a merged activity is its moving time whenever that *)
(* is present, zero included, else its elapsed time, else absent.          *)
(***************************************************************************)
ExpectedDuration(a) ==
    IF a.moving_time.k = "num" THEN a.moving_time ELSE a.elapsed_time

C6_DurationPrefersMovingTime ==
    (mpc = "done" /\ Len(Records) = Len(Input)) =>
        \A k \in 1..Len(Input) : Records[k].duration = ExpectedDuration(Input[k])

(***************************************************************************)
(* C7.  A missing, empty or unparseable stream artifact does not abort the *)
(* Merger: the output is written, and every activity that has an           *)
(* identifier and such an artifact has a record with both channels empty.  *)
(***************************************************************************)
C7_NoStreamsGivesEmptyChannels ==
    (activitiesFile.exists /\ mpc # "idle") =>
        /\ mpc = "done"
        /\ outputFile.exists
        /\ \A j \in 1..Len(Input) :
              (/\ Input[j].type = "Run"
               /\ HasIdentifier(Input[j].id)
               /\ NoStreams(streamFiles[str(Input[j].id)])) =>
                  \E k \in RecordOf(Input[j].id) :
                      /\ Records[k].heartrate = EmptySeq
                      /\ Records[k].velocity_smooth = EmptySeq

(***************************************************************************)
(* C8.  A loop iteration of the Extractor writes the artifact named after  *)
(* the activity's identifier exactly when the request returned a non-empty *)
(* payload; otherwise it leaves every stream artifact as it was.           *)
(***************************************************************************)
C8_ArtifactIffNonEmpty ==
    [][(pc = "loop" /\ i <= Len(activities)) =>
          /\ last'.id = activities[i].id
          /\ last'.wrote <=> (last'.outcome = "ok" /\ NonEmptyPayload(last'.streams))
          /\ IF last'.wrote
             THEN streamFiles' =
                    [streamFiles EXCEPT ![str(activities[i].id)] = JsonFile(last'.streams)]
             ELSE streamFiles' = streamFiles]_vars

\* the first activity's request returned nothing and left no artifact, the
\* second one's returned a payload that is now its artifact
C8_Witness ==
    /\ pc = "loop"
    /\ i = 3
    /\ activities[1].id # activities[2].id
    /\ streamFiles[str(activities[1].id)].st = "missing"
    /\ last.wrote
    /\ streamFiles[str(activities[2].id)] = JsonFile(last.streams)

(***************************************************************************)
(* C9.  For a list-of-typed-records artifact, each channel of the merged   *)
(* record is the data of one structured record carrying the channel's      *)
(* name; other elements do not matter.                                     *)
(***************************************************************************)
ListArtifact ==
    /\ mpc = "done"
    /\ streamFiles["i1"].st = "json"
    /\ streamFiles["i1"].p.k = "list"
    /\ Len(Records) = 1

\* C9 as stated: the first record carrying the name supplies the channel
C9_FirstRecordSupplies ==
    ListArtifact =>
        /\ Records[1].heartrate = FirstData(streamFiles["i1"].p.elems, "heartrate")
        /\ Records[1].velocity_smooth =
             FirstData(streamFiles["i1"].p.elems, "velocity_smooth")

\* C9 as amended: the last record carrying the name supplies the channel
C9_LastRecordSupplies ==
    ListArtifact =>
        /\ Records[1].heartrate = LastData(streamFiles["i1"].p.elems, "heartrate")
        /\ Records[1].velocity_smooth =
             LastData(streamFiles["i1"].p.elems, "velocity_smooth")

\* two heartrate records with different data around an element that is no
\* record: the merged heartrate is the data of the second
C9_Witness ==
    /\ ListArtifact
    /\ streamFiles["i1"].p.elems =
         <<StreamRec("heartrate", HR), NotADict, StreamRec("heartrate", VS)>>
    /\ Records[1].heartrate = VS
    /\ Records[1].velocity_smooth = EmptySeq

(***************************************************************************)
(* C10.  An Extractor run changes no stream artifact but the one a loop    *)
(* iteration writes, so an artifact of an earlier run survives a later     *)
(* empty fetch; and a Merger run gives each record the channels of the     *)
(* artifact on disk for its identifier.                                    *)
(***************************************************************************)
MergerStep == mpc' = "done" /\ (mpc' # mpc \/ outputFile' # outputFile)

C10_ArtifactsSurvive ==
    [][/\ \A key \in Keys :
            streamFiles'[key] # streamFiles[key] =>
                /\ pc = "loop"
                /\ last'.wrote
                /\ key = str(last'.id)
                /\ streamFiles'[key] = JsonFile(last'.streams)
       /\ MergerStep =>
            \A k \in 1..Len(outputFile'.data) :
                LET r == outputFile'.data[k]
                    file == streamFiles[str(r.id)]
                IN file.st = "json" =>
                     /\ r.heartrate = ArtifactChannel(file.p, "heartrate")
                     /\ r.velocity_smooth = ArtifactChannel(file.p, "velocity_smooth")]_vars

\* a run of one activity whose fetch returned an empty list has completed,
\* the artifact of an earlier run is still there, and the Merger's record
\* holds its heartrate
C10_Witness ==
    /\ pc = "complete"
    /\ Len(activities) = 1
    /\ last.id = IdStr("i1")
    /\ last.outcome = "ok"
    /\ last.streams = EmptyList
    /\ streamFiles["i1"] = JsonFile(PList(<<StreamRec("heartrate", HR)>>))
    /\ mpc = "done"
    /\ Len(Records) = 1
    /\ Records[1].id = IdStr("i1")
    /\ Records[1].heartrate = HR

====
